---- MODULE Spec2Model ----
(***************************************************************************)
(* o-face: the multi-terminal session manager of src/main.js (the registry *)
(* of pty processes, the IPC handlers terminal:create / write / resize /   *)
(* kill / killAll, the onData / onExit callbacks and the windows they send *)
(* to), the terminal window's page, the iframe bridge of the content       *)
(* pages, the meme bot's engine and Slack handlers, the NES audio worklet  *)
(* processor, the file watchers of main.js and the navigation ribbon.      *)
(***************************************************************************)
EXTENDS Integers, Sequences, FiniteSets, TLC

\* ------------------------------------------------------------------ bounds
\* Calls of pty.spawn over a run (successful or not).
MaxSpawns == 2
\* Calls of callParentAPI, and electronAPI-response messages, over a run.
MaxCalls == 2
MaxResponses == 2
\* The last value Date.now() takes over a run of the meme bot.
MaxNow == 4
\* Slack events (messages and mentions) the meme bot receives over a run.
MaxMessages == 3
\* Direct calls of MemeEngine.shouldRespond over a run.
MaxAsks == 2
\* The length of the NES audio ring buffer (32768 in the program), the samples
\* posted to it and the calls of process() over a run.
Capacity == 4
MaxSamples == 6
MaxProcess == 3
\* Calls of fs:watchFile over a run (fs.watch succeeding or not).
MaxWatchCalls == 3
\* The longest stored nav_button_order list.
MaxOrderLen == 3
\* Output events the panes of the terminal window receive over a run.
MaxPaneOutputs == 2
\* Environment events over a run: calls of pty.spawn, output chunks emitted, and
\* write / resize calls that reach a process.
MaxEvents == 3

\* ------------------------------------------------------------------ inputs
\* JavaScript's undefined: what terminal:create receives when called without id.
Undefined == "undefined"
\* The terminalId arguments of terminal:create: none, the falsy "", and an id a
\* caller chose (one the counter also generates).
CreateArgs == {Undefined, "", "term-0"}
\* The id arguments of terminal:write / resize / kill.
CallIds == {"term-0", "term-1"}
\* Output chunks of a shell and input data of a write.
Chunks == {"x", "y"}
Keys == {"k", "l"}
\* <<cols, rows>> arguments of terminal:resize.
Dims == {<<80, 24>>, <<120, 40>>}
\* The dimensions every process is spawned with.
SpawnCols == 80
SpawnRows == 24

VARIABLES
    pty,            \* node-pty was loaded (main.js 18-23)
    mainWindow,     \* "open" | "null"
    terminalWindow, \* "open" | "closing" (close() called, not yet closed) | "null"
    ptyProcesses,   \* the Map id -> process (a process is its index in procs)
    nextPtyId,      \* the auto-id counter
    procs,          \* every process pty.spawn returned, in spawn order
    spawns,         \* number of pty.spawn calls so far
    ios,            \* number of chunks emitted and of write / resize calls so far
    sent,           \* what the terminal window was sent since it opened, by channel and id
    ret,            \* what the last terminal:* IPC call gave its caller
    autoIds         \* ids returned by create without id since the last reset

vars == <<pty, mainWindow, terminalWindow, ptyProcesses, nextPtyId, procs,
          spawns, ios, sent, ret, autoIds>>

\* The terminal window's page (terminals.html): the Layout Coordinator and the
\* Attention Monitor.
VARIABLES
    layout,         \* the selected layout
    panes,          \* pane index -> [session, focus, flash]: the bound session id,
                    \* whether the pane has focus, what is left of its flash
    hidden          \* pane index -> the session id a removed pane was bound to

layoutVars == <<layout, panes, hidden>>
allVars == <<vars, layoutVars>>

\* The iframe bridge of a content page (its callParentAPI and message listener).
VARIABLES
    pendingCalls,   \* the Map's keys: ids of the calls that wait for a response
    promises,       \* call id -> [state, settles]: the promise callParentAPI returned
                    \* and how many times its resolve / reject were called
    timers,         \* ids of the calls whose setTimeout callback has not run yet
    responses       \* number of electronAPI-response messages received so far

bridgeVars == <<pendingCalls, promises, timers, responses>>

\* The meme bot: its MemeEngine and the Slack handlers that use it.
VARIABLES
    constructed,      \* whether new MemeEngine() ran
    now,              \* what Date.now() returns
    cooldownMs,       \* this.cooldownMs
    lastResponseTime, \* this.lastResponseTime: channel -> time of recordResponse
    answer,           \* what the last call of shouldRespond was given and returned
    asked,            \* number of direct calls of shouldRespond so far
    handlers,         \* the Slack handlers that await their meme search
    arrived,          \* number of Slack events received so far
    posts             \* the say() calls so far: [channel, time, kind]

memeVars == <<constructed, now, cooldownMs, lastResponseTime, answer, asked,
              handlers, arrived, posts>>

\* The NES audio worklet processor.
VARIABLES
    buffer,         \* this.buffer: index 0..Capacity-1 -> sample
    writeIndex,     \* this.writeIndex
    readIndex,      \* this.readIndex
    out,            \* [left, right]: what the last process() wrote to its output
    posted,         \* number of samples posted so far; the k-th sample is k
    played,         \* the samples process() has copied from the buffer, in order
    processes,      \* number of calls of process() so far
    overflowed      \* whether the samples not yet played ever reached Capacity

audioVars == <<buffer, writeIndex, readIndex, out, posted, played, processes,
               overflowed>>

\* The file watchers of main.js (fs:watchFile / fs:unwatchFile).
VARIABLES
    fileWatchers,   \* the Map: watchId -> index of its watcher in watchers
    watchers,       \* every FSWatcher fs.watch returned: [watchId, open]
    watchCalls,     \* number of calls of fs:watchFile so far
    watchRet        \* what the last fs:watchFile / fs:unwatchFile returned

watchVars == <<fileWatchers, watchers, watchCalls, watchRet>>

\* The navigation ribbon of nav.js.
VARIABLES
    savedOrder,     \* localStorage's nav_button_order when buildNavHTML last ran
    navButtons      \* the ids of the buttons buildNavHTML last rendered, in order

navVars == <<savedOrder, navButtons>>

\* The variables of the other components, for each component.
otherVars == <<bridgeVars, memeVars, audioVars, watchVars, navVars>>
bridgeOthers == <<allVars, memeVars, audioVars, watchVars, navVars>>
memeOthers == <<allVars, bridgeVars, audioVars, watchVars, navVars>>
audioOthers == <<allVars, bridgeVars, memeVars, watchVars, navVars>>
watchOthers == <<allVars, bridgeVars, memeVars, audioVars, navVars>>
navOthers == <<allVars, bridgeVars, memeVars, audioVars, watchVars>>

\* ----------------------------------------------------------------- helpers
\* `term-${n}`
TermId(n) == "term-" \o ToString(n)

\* terminalId || ... : undefined and "" are falsy
Truthy(terminalId) == terminalId # Undefined /\ terminalId # ""

\* A delete that removes nothing.
MapDeleteNothing(m, k) == m

\* Map.set, Map.delete, new Map()
MapSet(m, k, v) == [x \in (DOMAIN m) \cup {k} |-> IF x = k THEN v ELSE m[x]]
MapDelete(m, k) == [x \in (DOMAIN m) \ {k} |-> m[x]]
EmptyMap == [x \in {} |-> 0]
MapGet(m, k, default) == IF k \in DOMAIN m THEN m[k] ELSE default

\* terminalWindow.webContents.send('terminal:data', { id, data }) and
\* send('terminal:exit', { id }): the window's listeners (preload.js 11-16) hand
\* callback(id, data) the chunks of an id in the order sent, and callback(id) once
\* per exit message.
SendData(s, id, data) ==
    [s EXCEPT !.data = MapSet(@, id, Append(MapGet(@, id, <<>>), data))]
SendExit(s, id) ==
    [s EXCEPT !.exit = MapSet(@, id, MapGet(@, id, 0) + 1)]

\* terminalWindow && !terminalWindow.isDestroyed()
WindowAlive == terminalWindow \in {"open", "closing"}

\* A renderer exists that can invoke an IPC handler.
SomeWindow == mainWindow = "open" \/ WindowAlive

\* The process pty.spawn returns, with the id its callbacks close over. received
\* and emitted log the calls made on the process and the chunks it emitted while
\* the terminal window was alive; base is how many chunks the window had been
\* sent under the id when the process was spawned.
NewProc(id) ==
    [id |-> id, state |-> "running", cols |-> SpawnCols, rows |-> SpawnRows,
     kills |-> 0, received |-> <<>>, emitted |-> <<>>,
     base |-> Len(MapGet(sent.data, id, <<>>))]

\* What is left of a process once it exited: its id, and the kill requests it got.
Exited(proc) ==
    [NewProc(proc.id) EXCEPT !.state = "exited", !.kills = proc.kills, !.base = 0]

Pids == 1..Len(procs)
Registered == {ptyProcesses[i] : i \in DOMAIN ptyProcesses}

\* The run may still take an event that the bound counts.
Budget == spawns + ios < MaxEvents

\* The window is gone, and what it was sent with it: the logs of what the
\* processes emitted start again for the next window.
NothingSent == [data |-> EmptyMap, exit |-> EmptyMap]
NewWindow(ps) == [p \in DOMAIN ps |-> [ps[p] EXCEPT !.emitted = <<>>, !.base = 0]]

\* What a terminal:* handler gives its caller: { success: true, id, shell } ("id"),
\* { success: true } ("success"), { error: 'node-pty not available' }
\* ("unavailable"), { error: 'Terminal not found: ' + id } ("notfound", with
\* the id), or the exception its promise is rejected with ("throw").
Returned(res, id) == [res |-> res, id |-> id]

\* proc.kill() for every process of the set
KillEach(ps, S) ==
    [p \in DOMAIN ps |-> IF p \in S THEN [ps[p] EXCEPT !.kills = @ + 1] ELSE ps[p]]


\* ------------------------------------------------------------------ layout
\* The layouts and their pane counts.
Layouts == {"Single", "TwoHorizontal", "TwoVertical", "Four"}
PaneCount(l) == IF l = "Single" THEN 1 ELSE IF l = "Four" THEN 4 ELSE 2
MaxPanes == 4

\* The chunks the sessions bound to panes emit (the page's attention monitor
\* does not look into a chunk).
PaneChunks == {"x"}

\* A pane, or a remembered pane index, with no session bound.
Unbound == "unbound"

\* The fixed duration of a flash, in ticks of the clock.
FlashTicks == 2

NewPane(session) == [session |-> session, focus |-> FALSE, flash |-> 0]

\* Initial state: Single, pane 0 focused, no session bound.
LayoutInitial ==
    /\ layout = "Single"
    /\ panes = [i \in {0} |-> [NewPane(Unbound) EXCEPT !.focus = TRUE]]
    /\ hidden = [i \in 0..(MaxPanes - 1) |-> Unbound]

\* The index of the pane that has focus.
Focused(ps) == CHOOSE i \in DOMAIN ps : ps[i].focus

\* Pane i gains focus: every other pane loses it, and a flash of pane i ends.
SetFocus(ps, i) ==
    [j \in DOMAIN ps |->
        IF j = i THEN [ps[j] EXCEPT !.focus = TRUE, !.flash = 0]
        ELSE [ps[j] EXCEPT !.focus = FALSE]]

\* ----------------------------------------------------------- iframe bridge
\* The ids callParentAPI gives its calls, Math.random().toString(36) followed by
\* Date.now(): the k-th call's id is k (two calls never draw the same id).
CallIdOf(k) == k

\* A promise nobody settled yet.
NewPromise == [state |-> "pending", settles |-> 0]

\* resolve(result) / reject(error) called on a promise: the first call settles
\* it, a later one has no effect on its state.
Settle(promise, outcome) ==
    [state |-> IF promise.state = "pending" THEN outcome ELSE promise.state,
     settles |-> promise.settles + 1]

\* const pendingCalls = new Map()
BridgeInitial ==
    /\ pendingCalls = {}
    /\ promises = <<>>
    /\ timers = {}
    /\ responses = 0

\* ---------------------------------------------------------------- meme bot
\* Slack channels.
Channels == {"C1", "C2"}
\* A cooldown given in options.cooldownMs or in COOLDOWN_MS.
CooldownMs == 2
\* JavaScript's NaN: what parseInt(process.env.COOLDOWN_MS) is when the variable
\* is not set (NaN ?? 60000 is NaN).
NaN == -1
\* this.cooldownMs after the constructor.
CooldownValues == {CooldownMs, NaN}
\* a < b in JavaScript: false when b is NaN.
LessThan(a, b) == b # NaN /\ a < b

\* The value shouldRespond returns.
Answer(yes, reason) == [shouldRespond |-> yes, reason |-> reason]

\* A shouldRespond that knows no cooldown.
ShouldRespondNoCooldown(channelId, forcedResponse, draw) ==
    IF forcedResponse THEN Answer(TRUE, "forced")
    ELSE IF draw THEN Answer(FALSE, "random_skip")
    ELSE Answer(TRUE, "random_hit")

\* shouldRespond(channelId, forcedResponse); draw is the value of
\* Math.random() > this.responseChance.
ShouldRespond(channelId, forcedResponse, draw) ==
    IF forcedResponse THEN Answer(TRUE, "forced")
    ELSE IF /\ channelId \in DOMAIN lastResponseTime
            /\ lastResponseTime[channelId] # 0
            /\ LessThan(now - lastResponseTime[channelId], cooldownMs)
         THEN Answer(FALSE, "cooldown")
    ELSE IF draw THEN Answer(FALSE, "random_skip")
    ELSE Answer(TRUE, "random_hit")

\* What a call of shouldRespond was given and what it returned.
Asked(channelId, forcedResponse, draw, res) ==
    [channel |-> channelId, forced |-> forcedResponse, draw |-> draw, res |-> res]

\* The meme bot before new MemeEngine(); Date.now() is positive.
MemeInitial ==
    /\ constructed = FALSE
    /\ now = 1
    /\ cooldownMs = NaN
    /\ lastResponseTime = EmptyMap
    /\ answer = Asked(Undefined, FALSE, FALSE, Answer(FALSE, "none"))
    /\ asked = 0
    /\ handlers = {}
    /\ arrived = 0
    /\ posts = <<>>

\* --------------------------------------------------------------- NES audio
\* left.length: the frames of one render quantum (128 in a browser).
FrameLen == 2
\* The sample frames of an output channel.
Silence == [i \in 1..FrameLen |-> 0]

\* NESAudioProcessor's constructor; a new Float32Array holds zeros.
AudioInitial ==
    /\ buffer = [i \in 0..(Capacity - 1) |-> 0]
    /\ writeIndex = 0
    /\ readIndex = 0
    /\ out = [left |-> Silence, right |-> Silence]
    /\ posted = 0
    /\ played = <<>>
    /\ processes = 0
    /\ overflowed = FALSE

\* ----------------------------------------------------------- file watchers
\* The watchId arguments of fs:watchFile / fs:unwatchFile.
WatchIds == {"log-1", "log-2"}

\* watcher.close() on the watcher of a watchId.
CloseWatcher(ws, k) == [ws EXCEPT ![k].open = FALSE]

\* const fileWatchers = new Map()
WatchInitial ==
    /\ fileWatchers = EmptyMap
    /\ watchers = <<>>
    /\ watchCalls = 0
    /\ watchRet = "none"

\* ---------------------------------------------------------- navigation ribbon
\* NAV_PAGES: the id and the draggable field of every page.
NAV_PAGES ==
    << [id |-> "home", draggable |-> FALSE],
       [id |-> "memes", draggable |-> TRUE],
       [id |-> "whiteboard", draggable |-> TRUE],
       [id |-> "kabuki", draggable |-> TRUE],
       [id |-> "arcade", draggable |-> TRUE],
       [id |-> "soundboard", draggable |-> TRUE],
       [id |-> "ronin", draggable |-> TRUE],
       [id |-> "terminal", draggable |-> TRUE],
       [id |-> "music", draggable |-> TRUE] >>

\* The ids a stored order is made of: pages, home, and an id of no page.
StoredIds == {"memes", "kabuki", "music", "home", "bogus"}
\* The lists of at most n ids.
Lists(n) == UNION {[1..k -> StoredIds] : k \in 0..n}
\* What localStorage.getItem('nav_button_order') and JSON.parse make of the
\* stored item: no item (null), the empty string, a string JSON.parse throws on,
\* JSON that is no array (order.forEach is not a function), or a list of ids.
StoredOrders ==
    [kind : {"null", "empty", "unparsable", "nonarray"}, order : {<<>>}]
        \cup [kind : {"array"}, order : Lists(MaxOrderLen)]

\* pages.filter(p => p.draggable)
DraggablePages == SelectSeq(NAV_PAGES, LAMBDA p : p.draggable)
\* The ids of a list of pages.
Ids(pages) == [k \in DOMAIN pages |-> pages[k].id]
\* Array.includes
Includes(list, x) == \E k \in DOMAIN list : list[k] = x

\* order.forEach(id => { const page = draggablePages.find(p => p.id === id);
\* if (page) reordered.push(page); }) from the k-th id on
RECURSIVE AddSaved(_, _, _)
AddSaved(order, k, reordered) ==
    IF k > Len(order) THEN reordered
    ELSE AddSaved(order, k + 1,
                  IF Includes(Ids(DraggablePages), order[k])
                  THEN Append(reordered, order[k])
                  ELSE reordered)

\* draggablePages.forEach(page => { if (!reordered.includes(page))
\* reordered.push(page); }) from the k-th page on
RECURSIVE AddMissing(_, _)
AddMissing(k, reordered) ==
    IF k > Len(DraggablePages) THEN reordered
    ELSE AddMissing(k + 1,
                    IF Includes(reordered, DraggablePages[k].id)
                    THEN reordered
                    ELSE Append(reordered, DraggablePages[k].id))

\* The ids of `pages` at line 61 of buildNavHTML, one button each.
Pages(stored) ==
    IF stored.kind = "array"
    THEN <<"home">> \o AddMissing(1, AddSaved(stored.order, 1, <<>>))
    ELSE Ids(NAV_PAGES)

\* Before buildNavHTML ran.
NavInitial ==
    /\ savedOrder = [kind |-> "null", order |-> <<>>]
    /\ navButtons = <<>>

\* -------------------------------------------------------------------- Init
Init ==
    /\ pty \in BOOLEAN
    /\ mainWindow = "open"
    /\ terminalWindow = "null"
    /\ ptyProcesses = EmptyMap
    /\ nextPtyId = 0
    /\ procs = <<>>
    /\ spawns = 0
    /\ ios = 0
    /\ sent = NothingSent
    /\ ret = Returned("none", Undefined)
    /\ autoIds = <<>>
    /\ LayoutInitial
    /\ BridgeInitial
    /\ MemeInitial
    /\ AudioInitial
    /\ WatchInitial
    /\ NavInitial

\* ----------------------------------------------------------------- windows
\* mainWindow.on('closed')
MainWindowClosed ==
    /\ mainWindow = "open"
    /\ mainWindow' = "null"
    /\ terminalWindow' = IF WindowAlive THEN "closing" ELSE terminalWindow
    /\ UNCHANGED <<pty, ptyProcesses, nextPtyId, procs, spawns, ios, sent, ret, autoIds>>

\* app.on('activate')
AppActivate ==
    /\ mainWindow = "null" /\ terminalWindow = "null"
    /\ mainWindow' = "open"
    /\ UNCHANGED <<pty, terminalWindow, ptyProcesses, nextPtyId, procs, spawns, ios,
                   sent, ret, autoIds>>

\* ipcMain.handle('window:openTerminal') -> createTerminalWindow()
OpenTerminal ==
    /\ SomeWindow
    /\ terminalWindow' = IF WindowAlive THEN terminalWindow ELSE "open"
    /\ UNCHANGED <<pty, mainWindow, ptyProcesses, nextPtyId, procs, spawns, ios, sent,
                   ret, autoIds>>

\* A window that closes and leaves the sessions running.
TerminalWindowClosedKeepsSessions ==
    /\ WindowAlive
    /\ terminalWindow' = "null"
    /\ procs' = NewWindow(procs)
    /\ sent' = NothingSent
    /\ UNCHANGED <<pty, mainWindow, ptyProcesses, nextPtyId, autoIds, spawns, ios, ret>>

\* terminalWindow.on('closed')
TerminalWindowClosed ==
    /\ WindowAlive
    /\ terminalWindow' = "null"
    /\ procs' = NewWindow(KillEach(procs, Registered))
    /\ ptyProcesses' = EmptyMap
    /\ nextPtyId' = 0
    /\ autoIds' = <<>>
    /\ sent' = NothingSent
    /\ UNCHANGED <<pty, mainWindow, spawns, ios, ret>>

\* ------------------------------------------------------------ IPC handlers
\* The id taken from the counter before node-pty is looked at.
CreateUnavailableCounts(terminalId) ==
    /\ ~pty
    /\ nextPtyId' = IF Truthy(terminalId) THEN nextPtyId ELSE nextPtyId + 1
    /\ ret' = Returned("unavailable", Undefined)
    /\ UNCHANGED <<pty, mainWindow, terminalWindow, ptyProcesses, procs, spawns, ios, sent,
                   autoIds>>

\* ipcMain.handle('terminal:create'), `if (!pty)` branch
CreateUnavailable(terminalId) ==
    /\ ~pty
    /\ ret' = Returned("unavailable", Undefined)
    /\ UNCHANGED <<pty, mainWindow, terminalWindow, ptyProcesses, nextPtyId, procs,
                   spawns, ios, sent, autoIds>>

\* A counter that is read but not advanced.
CreateCounterStuck(terminalId) == nextPtyId

\* An id taken from the counter whatever the caller gave.
CreateIdIgnoresArg(terminalId) == TermId(nextPtyId)

\* const id = terminalId || `term-${nextPtyId++}`
CreateId(terminalId) == IF Truthy(terminalId) THEN terminalId ELSE TermId(nextPtyId)
CreateCounter(terminalId) == IF Truthy(terminalId) THEN nextPtyId ELSE nextPtyId + 1

\* pty.spawn throws: the async handler's promise rejects, nothing after line 125 runs
CreateSpawnThrows(terminalId) ==
    /\ pty
    /\ spawns < MaxSpawns
    /\ Budget
    /\ spawns' = spawns + 1
    /\ nextPtyId' = CreateCounter(terminalId)
    /\ ret' = Returned("throw", Undefined)
    /\ UNCHANGED <<pty, mainWindow, terminalWindow, ptyProcesses, procs, sent, autoIds, ios>>

\* pty.spawn returns a process: it is registered and its callbacks installed
CreateSpawned(terminalId) ==
    /\ pty
    /\ spawns < MaxSpawns
    /\ Budget
    /\ spawns' = spawns + 1
    /\ nextPtyId' = CreateCounter(terminalId)
    /\ procs' = Append(procs, NewProc(CreateId(terminalId)))
    /\ ptyProcesses' = MapSet(ptyProcesses, CreateId(terminalId), Len(procs) + 1)
    /\ ret' = Returned("id", CreateId(terminalId))
    /\ autoIds' = IF Truthy(terminalId) THEN autoIds
                  ELSE Append(autoIds, CreateId(terminalId))
    /\ UNCHANGED <<pty, mainWindow, terminalWindow, sent, ios>>

Create ==
    /\ SomeWindow
    /\ \E terminalId \in CreateArgs :
          \/ CreateUnavailable(terminalId)
          \/ CreateSpawnThrows(terminalId)
          \/ CreateSpawned(terminalId)

\* A write that also echoes the data to the terminal window.
WriteFoundEchoes(id, data) ==
    /\ id \in DOMAIN ptyProcesses
    /\ Budget
    /\ procs' = [procs EXCEPT ![ptyProcesses[id]].received =
                     Append(@, <<"write", data>>)]
    /\ ios' = ios + 1
    /\ sent' = IF WindowAlive THEN SendData(sent, id, data) ELSE sent
    /\ ret' = Returned("success", Undefined)
    /\ UNCHANGED <<pty, mainWindow, terminalWindow, ptyProcesses, nextPtyId, spawns,
                   autoIds>>

\* ipcMain.handle('terminal:write')
WriteFound(id, data) ==
    /\ id \in DOMAIN ptyProcesses
    /\ Budget
    /\ procs' = [procs EXCEPT ![ptyProcesses[id]].received =
                     Append(@, <<"write", data>>)]
    /\ ios' = ios + 1
    /\ ret' = Returned("success", Undefined)
    /\ UNCHANGED <<pty, mainWindow, terminalWindow, ptyProcesses, nextPtyId, spawns,
                   sent, autoIds>>

\* An unknown id answered with success.
NotFoundSucceeds(id) ==
    /\ id \notin DOMAIN ptyProcesses
    /\ ret' = Returned("success", Undefined)
    /\ UNCHANGED <<pty, mainWindow, terminalWindow, ptyProcesses, nextPtyId, procs,
                   spawns, ios, sent, autoIds>>

\* The `return { error: 'Terminal not found: ' + id }` of write, resize and kill
NotFound(id) ==
    /\ id \notin DOMAIN ptyProcesses
    /\ ret' = Returned("notfound", id)
    /\ UNCHANGED <<pty, mainWindow, terminalWindow, ptyProcesses, nextPtyId, procs,
                   spawns, ios, sent, autoIds>>

Write ==
    /\ SomeWindow
    /\ \E id \in CallIds, data \in Keys :
          \/ WriteFound(id, data)
          \/ NotFound(id)

\* A resize that passes rows for cols and cols for rows.
ResizeFoundSwapped(id, cols, rows) ==
    /\ id \in DOMAIN ptyProcesses
    /\ Budget
    /\ procs' = [procs EXCEPT ![ptyProcesses[id]] =
                     [@ EXCEPT !.cols = rows, !.rows = cols,
                               !.received = Append(@, <<"resize", rows, cols>>)]]
    /\ ios' = ios + 1
    /\ ret' = Returned("success", Undefined)
    /\ UNCHANGED <<pty, mainWindow, terminalWindow, ptyProcesses, nextPtyId, spawns,
                   sent, autoIds>>

\* ipcMain.handle('terminal:resize')
ResizeFound(id, cols, rows) ==
    /\ id \in DOMAIN ptyProcesses
    /\ Budget
    /\ procs' = [procs EXCEPT ![ptyProcesses[id]] =
                     [@ EXCEPT !.cols = cols, !.rows = rows,
                               !.received = Append(@, <<"resize", cols, rows>>)]]
    /\ ios' = ios + 1
    /\ ret' = Returned("success", Undefined)
    /\ UNCHANGED <<pty, mainWindow, terminalWindow, ptyProcesses, nextPtyId, spawns,
                   sent, autoIds>>

Resize ==
    /\ SomeWindow
    /\ \E id \in CallIds, d \in Dims :
          \/ ResizeFound(id, d[1], d[2])
          \/ NotFound(id)

\* A kill that leaves the entry to the exit callback.
KillFoundKeepsEntry(id) ==
    /\ id \in DOMAIN ptyProcesses
    /\ procs' = KillEach(procs, {ptyProcesses[id]})
    /\ ret' = Returned("success", Undefined)
    /\ UNCHANGED <<pty, mainWindow, terminalWindow, ptyProcesses, nextPtyId, spawns, ios,
                   sent, autoIds>>

\* A kill that resets the counter when it empties the registry.
KillFoundResetsCounter(id) ==
    /\ id \in DOMAIN ptyProcesses
    /\ procs' = KillEach(procs, {ptyProcesses[id]})
    /\ ptyProcesses' = MapDelete(ptyProcesses, id)
    /\ nextPtyId' = IF DOMAIN ptyProcesses = {id} THEN 0 ELSE nextPtyId
    /\ ret' = Returned("success", Undefined)
    /\ UNCHANGED <<pty, mainWindow, terminalWindow, spawns, ios, sent, autoIds>>

\* ipcMain.handle('terminal:kill')
KillFound(id) ==
    /\ id \in DOMAIN ptyProcesses
    /\ procs' = KillEach(procs, {ptyProcesses[id]})
    /\ ptyProcesses' = MapDelete(ptyProcesses, id)
    /\ ret' = Returned("success", Undefined)
    /\ UNCHANGED <<pty, mainWindow, terminalWindow, nextPtyId, spawns, ios, sent, autoIds>>

Kill ==
    /\ SomeWindow
    /\ \E id \in CallIds :
          \/ KillFound(id)
          \/ NotFound(id)

\* A killAll that forgets the counter.
KillAllKeepsCounter ==
    /\ SomeWindow
    /\ procs' = KillEach(procs, Registered)
    /\ ptyProcesses' = EmptyMap
    /\ ret' = Returned("success", Undefined)
    /\ UNCHANGED <<pty, mainWindow, terminalWindow, nextPtyId, spawns, ios, sent, autoIds>>

\* ipcMain.handle('terminal:killAll')
KillAll ==
    /\ SomeWindow
    /\ procs' = KillEach(procs, Registered)
    /\ ptyProcesses' = EmptyMap
    /\ nextPtyId' = 0
    /\ autoIds' = <<>>
    /\ ret' = Returned("success", Undefined)
    /\ UNCHANGED <<pty, mainWindow, terminalWindow, spawns, ios, sent>>

\* ------------------------------------------------------- process callbacks
\* A data callback that sends whether or not the window is there.
OnDataIgnoresWindow(p, data) ==
    /\ procs[p].state = "running"
    /\ Budget
    /\ procs' = [procs EXCEPT ![p].emitted = Append(@, data)]
    /\ sent' = SendData(sent, procs[p].id, data)
    /\ ios' = ios + 1
    /\ UNCHANGED <<pty, mainWindow, terminalWindow, ptyProcesses, nextPtyId, spawns,
                   ret, autoIds>>

\* ptyProcess.onData
OnData(p, data) ==
    /\ procs[p].state = "running"
    /\ Budget
    /\ procs' = [procs EXCEPT ![p].emitted =
                     IF WindowAlive THEN Append(@, data) ELSE @]
    /\ sent' = IF WindowAlive THEN SendData(sent, procs[p].id, data) ELSE sent
    /\ ios' = ios + 1
    /\ UNCHANGED <<pty, mainWindow, terminalWindow, ptyProcesses, nextPtyId, spawns,
                   ret, autoIds>>

\* An exit callback that leaves the registry alone.
OnExitKeepsEntry(p) ==
    /\ procs[p].state = "running"
    /\ procs' = [procs EXCEPT ![p] = Exited(procs[p])]
    /\ sent' = IF WindowAlive THEN SendExit(sent, procs[p].id) ELSE sent
    /\ UNCHANGED <<pty, mainWindow, terminalWindow, ptyProcesses, nextPtyId, spawns, ios,
                   ret, autoIds>>

\* ptyProcess.onExit
OnExit(p) ==
    /\ procs[p].state = "running"
    /\ procs' = [procs EXCEPT ![p] = Exited(procs[p])]
    /\ ptyProcesses' = MapDelete(ptyProcesses, procs[p].id)
    /\ sent' = IF WindowAlive THEN SendExit(sent, procs[p].id) ELSE sent
    /\ UNCHANGED <<pty, mainWindow, terminalWindow, nextPtyId, spawns, ios, ret, autoIds>>

ProcData == \E p \in Pids, data \in Chunks : OnData(p, data)
ProcExit == \E p \in Pids : OnExit(p)

Next ==
    \/ MainWindowClosed /\ UNCHANGED <<layoutVars, otherVars>>
    \/ AppActivate /\ UNCHANGED <<layoutVars, otherVars>>
    \/ OpenTerminal /\ UNCHANGED <<layoutVars, otherVars>>
    \/ TerminalWindowClosed /\ UNCHANGED <<layoutVars, otherVars>>
    \/ Create /\ UNCHANGED <<layoutVars, otherVars>>
    \/ Write /\ UNCHANGED <<layoutVars, otherVars>>
    \/ Resize /\ UNCHANGED <<layoutVars, otherVars>>
    \/ Kill /\ UNCHANGED <<layoutVars, otherVars>>
    \/ KillAll /\ UNCHANGED <<layoutVars, otherVars>>
    \/ ProcData /\ UNCHANGED <<layoutVars, otherVars>>
    \/ ProcExit /\ UNCHANGED <<layoutVars, otherVars>>

Spec == Init /\ [][Next]_vars

\* The exit callback of a process that was asked to terminate runs eventually.
FairSpec ==
    Spec /\ \A p \in 1..MaxSpawns :
                WF_vars(p \in Pids /\ procs[p].kills > 0 /\ OnExit(p))

\* A terminal window whose close() was called is closed eventually: main.js
\* registers no 'close' listener that would prevent it.
CloseSpec == Spec /\ WF_vars(terminalWindow = "closing" /\ TerminalWindowClosed)

\* ------------------------------------------------- the terminal window's page
\* The sessions bound to the panes a layout with P panes removes.
RemovedSessions(P) ==
    {panes[i].session : i \in {j \in DOMAIN panes : j >= P}} \cap DOMAIN ptyProcesses

\* A layout change that kills the sessions of the panes it removes.
SelectLayoutKillsRemoved(l) ==
    LET P == PaneCount(l)
        kept == [i \in 0..(P - 1) |->
                    IF i \in DOMAIN panes THEN panes[i] ELSE NewPane(hidden[i])]
    IN  /\ WindowAlive
        /\ layout' = l
        /\ panes' = IF Focused(panes) < P THEN kept ELSE SetFocus(kept, 0)
        /\ hidden' = [i \in DOMAIN hidden |-> IF i < P THEN Unbound ELSE hidden[i]]
        /\ procs' = KillEach(procs, {ptyProcesses[id] : id \in RemovedSessions(P)})
        /\ ptyProcesses' = [id \in DOMAIN ptyProcesses \ RemovedSessions(P) |->
                                ptyProcesses[id]]
        /\ UNCHANGED <<pty, mainWindow, terminalWindow, nextPtyId, spawns, ios, sent,
                       ret, autoIds>>

\* A layout change that leaves the focus where it was.
SelectLayoutLosesFocus(l) ==
    LET P == PaneCount(l)
    IN  /\ WindowAlive
        /\ layout' = l
        /\ panes' = [i \in 0..(P - 1) |->
                        IF i \in DOMAIN panes THEN panes[i] ELSE NewPane(hidden[i])]
        /\ hidden' = [i \in DOMAIN hidden |->
                          IF i < P THEN Unbound
                          ELSE IF i \in DOMAIN panes THEN panes[i].session
                          ELSE hidden[i]]
        /\ UNCHANGED vars

\* The user selects a layout: exactly PaneCount(l) panes exist afterwards. A pane
\* index that exists before and after keeps its pane; a new pane takes the
\* session remembered for its index; the session of a removed pane is remembered
\* and not killed; focus goes to pane 0 if the focused index no longer exists.
SelectLayout(l) ==
    LET P == PaneCount(l)
        kept == [i \in 0..(P - 1) |->
                    IF i \in DOMAIN panes THEN panes[i] ELSE NewPane(hidden[i])]
    IN  /\ WindowAlive
        /\ layout' = l
        /\ panes' = IF Focused(panes) < P THEN kept ELSE SetFocus(kept, 0)
        /\ hidden' = [i \in DOMAIN hidden |->
                          IF i < P THEN Unbound
                          ELSE IF i \in DOMAIN panes THEN panes[i].session
                          ELSE hidden[i]]
        /\ UNCHANGED vars

\* A pane with no bound session asks the registry for one (terminal.create()
\* without an id) and binds the id it is given; an error leaves it unbound.
PaneCreate(i) ==
    /\ WindowAlive
    /\ i \in DOMAIN panes
    /\ panes[i].session = Unbound
    /\ \/ CreateUnavailable(Undefined) /\ UNCHANGED layoutVars
       \/ /\ pty
          /\ spawns < MaxPanes
          /\ spawns' = spawns + 1
          /\ nextPtyId' = CreateCounter(Undefined)
          /\ ret' = Returned("throw", Undefined)
          /\ UNCHANGED <<pty, mainWindow, terminalWindow, ptyProcesses, procs, sent,
                         autoIds, ios, layoutVars>>
       \/ /\ pty
          /\ spawns < MaxPanes
          /\ spawns' = spawns + 1
          /\ nextPtyId' = CreateCounter(Undefined)
          /\ procs' = Append(procs, NewProc(CreateId(Undefined)))
          /\ ptyProcesses' = MapSet(ptyProcesses, CreateId(Undefined), Len(procs) + 1)
          /\ ret' = Returned("id", CreateId(Undefined))
          /\ autoIds' = Append(autoIds, CreateId(Undefined))
          /\ panes' = [panes EXCEPT ![i].session = CreateId(Undefined)]
          /\ UNCHANGED <<pty, mainWindow, terminalWindow, sent, ios, layout, hidden>>

\* Keyboard navigation: next / previous pane index modulo the pane count, or an
\* explicit index.
FocusPane(i) ==
    /\ WindowAlive
    /\ i \in DOMAIN panes
    /\ panes' = SetFocus(panes, i)
    /\ UNCHANGED <<vars, layout, hidden>>
FocusNext == FocusPane((Focused(panes) + 1) % PaneCount(layout))
FocusPrev == FocusPane((Focused(panes) + PaneCount(layout) - 1) % PaneCount(layout))

\* An output event that starts the flash of an unfocused pane again.
PaneOutputRestarts(i, data) ==
    /\ WindowAlive
    /\ i \in DOMAIN panes
    /\ panes[i].session \in DOMAIN ptyProcesses
    /\ procs[ptyProcesses[panes[i].session]].state = "running"
    /\ ios < MaxPaneOutputs
    /\ ios' = ios + 1
    /\ procs' = [procs EXCEPT ![ptyProcesses[panes[i].session]].emitted = Append(@, data)]
    /\ sent' = SendData(sent, panes[i].session, data)
    /\ panes' = [panes EXCEPT ![i].flash = IF ~panes[i].focus THEN FlashTicks ELSE @]
    /\ UNCHANGED <<pty, mainWindow, terminalWindow, ptyProcesses, nextPtyId, spawns,
                   ret, autoIds, layout, hidden>>

\* The session bound to pane i emits a chunk (ptyProcess.onData) and the page's
\* terminal.onData listener receives it: an unfocused pane with no flash in
\* progress starts one; a flash in progress is left as it is.
PaneOutput(i, data) ==
    /\ WindowAlive
    /\ i \in DOMAIN panes
    /\ panes[i].session \in DOMAIN ptyProcesses
    /\ procs[ptyProcesses[panes[i].session]].state = "running"
    /\ ios < MaxPaneOutputs
    /\ ios' = ios + 1
    /\ procs' = [procs EXCEPT ![ptyProcesses[panes[i].session]].emitted = Append(@, data)]
    /\ sent' = SendData(sent, panes[i].session, data)
    /\ panes' = [panes EXCEPT ![i].flash =
                     IF ~panes[i].focus /\ @ = 0 THEN FlashTicks ELSE @]
    /\ UNCHANGED <<pty, mainWindow, terminalWindow, ptyProcesses, nextPtyId, spawns,
                   ret, autoIds, layout, hidden>>

\* One tick of the clock: every flash in progress has one tick less to go.
Tick ==
    /\ WindowAlive
    /\ \E i \in DOMAIN panes : panes[i].flash > 0
    /\ panes' = [i \in DOMAIN panes |->
                    [panes[i] EXCEPT !.flash = IF @ > 0 THEN @ - 1 ELSE 0]]
    /\ UNCHANGED <<vars, layout, hidden>>

LayoutNext ==
    \/ OpenTerminal /\ UNCHANGED <<layoutVars, otherVars>>
    \/ \E l \in Layouts : SelectLayout(l) /\ UNCHANGED otherVars
    \/ \E i \in 0..(MaxPanes - 1) : PaneCreate(i) /\ UNCHANGED otherVars
    \/ \E i \in 0..(MaxPanes - 1) : FocusPane(i) /\ UNCHANGED otherVars
    \/ FocusNext /\ UNCHANGED otherVars
    \/ FocusPrev /\ UNCHANGED otherVars
    \/ \E i \in 0..(MaxPanes - 1), data \in PaneChunks :
          PaneOutput(i, data) /\ UNCHANGED otherVars
    \/ Tick /\ UNCHANGED otherVars

LayoutSpec == Init /\ [][LayoutNext]_allVars

\* ----------------------------------------------------------- iframe bridge
\* The error fields of a response: none, the falsy "", and a message.
ResponseErrors == {Undefined, "", "failed"}
\* The ids of responses: those of the calls, and one no call has.
ResponseIds == 0..MaxCalls

\* A call that sets no timeout.
CallParentAPINoTimer ==
    /\ Len(promises) < MaxCalls
    /\ promises' = Append(promises, NewPromise)
    /\ pendingCalls' = pendingCalls \cup {CallIdOf(Len(promises) + 1)}
    /\ UNCHANGED <<timers, responses>>

\* callParentAPI(method, args): the promise's executor
CallParentAPI ==
    /\ Len(promises) < MaxCalls
    /\ promises' = Append(promises, NewPromise)
    /\ pendingCalls' = pendingCalls \cup {CallIdOf(Len(promises) + 1)}
    /\ timers' = timers \cup {CallIdOf(Len(promises) + 1)}
    /\ UNCHANGED responses

\* window.addEventListener('message'), for an electronAPI-response
OnResponse(id, error) ==
    /\ responses < MaxResponses
    /\ responses' = responses + 1
    /\ IF id \in pendingCalls
       THEN /\ pendingCalls' = pendingCalls \ {id}
            /\ promises' = [promises EXCEPT ![id] =
                   Settle(@, IF Truthy(error) THEN "rejected" ELSE "resolved")]
       ELSE UNCHANGED <<pendingCalls, promises>>
    /\ UNCHANGED timers

\* A timeout that rejects without looking at pendingCalls.
OnTimeoutRejectsAlways(id) ==
    /\ id \in timers
    /\ timers' = timers \ {id}
    /\ pendingCalls' = pendingCalls \ {id}
    /\ promises' = [promises EXCEPT ![id] = Settle(@, "timeout")]
    /\ UNCHANGED responses

\* The setTimeout callback of a call, 30 seconds after the call
OnTimeout(id) ==
    /\ id \in timers
    /\ timers' = timers \ {id}
    /\ IF id \in pendingCalls
       THEN /\ pendingCalls' = pendingCalls \ {id}
            /\ promises' = [promises EXCEPT ![id] = Settle(@, "timeout")]
       ELSE UNCHANGED <<pendingCalls, promises>>
    /\ UNCHANGED responses

BridgeNext ==
    \/ CallParentAPI /\ UNCHANGED bridgeOthers
    \/ \E id \in ResponseIds, error \in ResponseErrors :
          OnResponse(id, error) /\ UNCHANGED bridgeOthers
    \/ \E id \in ResponseIds : OnTimeout(id) /\ UNCHANGED bridgeOthers

BridgeSpec == Init /\ [][BridgeNext]_bridgeVars

\* A timer that was set runs its callback: nothing in the bridge clears it.
BridgeFairSpec == BridgeSpec /\ \A id \in ResponseIds : WF_bridgeVars(OnTimeout(id))

\* ---------------------------------------------------------------- meme bot
\* new MemeEngine(options): cooldownMs is options.cooldownMs, or else
\* parseInt(process.env.COOLDOWN_MS)
NewMemeEngine(c) ==
    /\ ~constructed
    /\ constructed' = TRUE
    /\ cooldownMs' = c
    /\ lastResponseTime' = EmptyMap
    /\ UNCHANGED <<now, answer, asked, handlers, arrived, posts>>

\* Time passes.
ClockTick ==
    /\ now < MaxNow
    /\ now' = now + 1
    /\ UNCHANGED <<constructed, cooldownMs, lastResponseTime, answer, asked,
                   handlers, arrived, posts>>

\* A caller's memeEngine.shouldRespond(channelId, forcedResponse)
ShouldRespondCall(channelId, forcedResponse, draw) ==
    /\ constructed
    /\ asked < MaxAsks
    /\ asked' = asked + 1
    /\ answer' = Asked(channelId, forcedResponse, draw,
                       ShouldRespond(channelId, forcedResponse, draw))
    /\ UNCHANGED <<constructed, now, cooldownMs, lastResponseTime, handlers,
                   arrived, posts>>

\* memeEngine.recordResponse(channelId)
RecordResponse(channelId) ==
    /\ constructed
    /\ lastResponseTime' = MapSet(lastResponseTime, channelId, now)
    /\ UNCHANGED <<constructed, now, cooldownMs, answer, asked, handlers,
                   arrived, posts>>

\* A Slack handler that awaits its meme search.
Handler(kind, channelId) == [kind |-> kind, channel |-> channelId, n |-> arrived + 1]
\* A say() call.
Post(kind, channelId) == [kind |-> kind, channel |-> channelId, time |-> now]

\* app.message handler up to its await: skip is message.subtype ||
\* message.thread_ts
OnMessage(channelId, skip, draw) ==
    /\ constructed
    /\ arrived < MaxMessages
    /\ arrived' = arrived + 1
    /\ IF skip
       THEN UNCHANGED <<answer, handlers>>
       ELSE /\ answer' = Asked(channelId, FALSE, draw,
                               ShouldRespond(channelId, FALSE, draw))
            /\ handlers' = IF ShouldRespond(channelId, FALSE, draw).shouldRespond
                           THEN handlers \cup {Handler("message", channelId)}
                           ELSE handlers
    /\ UNCHANGED <<constructed, now, cooldownMs, lastResponseTime, asked, posts>>

\* app.message handler after its await of getMemeForMessage: meme is whether
\* the search found one (none also when it threw)
OnMessageSearched(h, meme) ==
    /\ h \in handlers
    /\ h.kind = "message"
    /\ handlers' = handlers \ {h}
    /\ IF meme
       THEN /\ lastResponseTime' = MapSet(lastResponseTime, h.channel, now)
            /\ posts' = Append(posts, Post("message", h.channel))
       ELSE UNCHANGED <<lastResponseTime, posts>>
    /\ UNCHANGED <<constructed, now, cooldownMs, answer, asked, arrived>>

\* app_mention handler up to its await
OnMention(channelId) ==
    /\ constructed
    /\ arrived < MaxMessages
    /\ arrived' = arrived + 1
    /\ handlers' = handlers \cup {Handler("mention", channelId)}
    /\ UNCHANGED <<constructed, now, cooldownMs, lastResponseTime, answer, asked,
                   posts>>

\* app_mention handler after its awaits: it says the meme, a trending one or
\* the error blocks, or nothing when a call threw
OnMentionSearched(h, thrown) ==
    /\ h \in handlers
    /\ h.kind = "mention"
    /\ handlers' = handlers \ {h}
    /\ posts' = IF thrown THEN posts ELSE Append(posts, Post("mention", h.channel))
    /\ UNCHANGED <<constructed, now, cooldownMs, lastResponseTime, answer, asked,
                   arrived>>

\* Every handler there can be.
Handlers == [kind : {"message", "mention"}, channel : Channels, n : 1..MaxMessages]

\* The engine alone, called by any caller.
EngineNext ==
    \/ \E c \in CooldownValues : NewMemeEngine(c) /\ UNCHANGED memeOthers
    \/ ClockTick /\ UNCHANGED memeOthers
    \/ \E ch \in Channels, forced \in BOOLEAN, draw \in BOOLEAN :
          ShouldRespondCall(ch, forced, draw) /\ UNCHANGED memeOthers
    \/ \E ch \in Channels : RecordResponse(ch) /\ UNCHANGED memeOthers

EngineSpec == Init /\ [][EngineNext]_memeVars

\* The Slack bot.
SlackNext ==
    \/ \E c \in CooldownValues : NewMemeEngine(c) /\ UNCHANGED memeOthers
    \/ ClockTick /\ UNCHANGED memeOthers
    \/ \E ch \in Channels, skip \in BOOLEAN, draw \in BOOLEAN :
          OnMessage(ch, skip, draw) /\ UNCHANGED memeOthers
    \/ \E h \in Handlers, meme \in BOOLEAN :
          OnMessageSearched(h, meme) /\ UNCHANGED memeOthers
    \/ \E ch \in Channels : OnMention(ch) /\ UNCHANGED memeOthers
    \/ \E h \in Handlers, thrown \in BOOLEAN :
          OnMentionSearched(h, thrown) /\ UNCHANGED memeOthers

SlackSpec == Init /\ [][SlackNext]_memeVars

\* --------------------------------------------------------------- NES audio
\* The onmessage loop over samples first+1 .. last: every sample is stored at the
\* write index, which then advances modulo the buffer's length.
RECURSIVE Store(_, _, _, _)
Store(buf, w, first, last) ==
    IF first >= last THEN [buffer |-> buf, writeIndex |-> w]
    ELSE Store([buf EXCEPT ![w] = first + 1], (w + 1) % Capacity, first + 1, last)

\* port.onmessage for { type: 'samples', samples } with n samples
OnSamples(n) ==
    /\ posted + n <= MaxSamples
    /\ posted' = posted + n
    /\ buffer' = Store(buffer, writeIndex, posted, posted + n).buffer
    /\ writeIndex' = Store(buffer, writeIndex, posted, posted + n).writeIndex
    /\ overflowed' = (overflowed \/ posted + n - Len(played) >= Capacity)
    /\ UNCHANGED <<readIndex, out, played, processes>>

\* A slot that is read without comparing the indexes.
SlotUnchecked(r) ==
    [value |-> buffer[r], readIndex |-> (r + 1) % Capacity, read |-> <<buffer[r]>>]

\* One slot of process(): the sample at the read index, or 0 when the read index
\* has reached the write index.
Slot(r) ==
    IF r # writeIndex
    THEN [value |-> buffer[r], readIndex |-> (r + 1) % Capacity, read |-> <<buffer[r]>>]
    ELSE [value |-> 0, readIndex |-> r, read |-> <<>>]

\* The loop of process() from frame i on: left[i], then right[i].
RECURSIVE Fill(_, _, _)
Fill(i, r, acc) ==
    IF i > FrameLen THEN [left |-> acc.left, right |-> acc.right,
                          readIndex |-> r, read |-> acc.read]
    ELSE LET l == Slot(r)
             rt == Slot(l.readIndex)
         IN Fill(i + 1, rt.readIndex,
                 [left |-> Append(acc.left, l.value),
                  right |-> Append(acc.right, rt.value),
                  read |-> acc.read \o l.read \o rt.read])

\* process(inputs, outputs, parameters); stereo is whether outputs[0] has a left
\* and a right channel
Process(stereo) ==
    /\ processes < MaxProcess
    /\ processes' = processes + 1
    /\ IF stereo
       THEN LET f == Fill(1, readIndex, [left |-> <<>>, right |-> <<>>, read |-> <<>>])
            IN /\ out' = [left |-> f.left, right |-> f.right]
               /\ readIndex' = f.readIndex
               /\ played' = played \o f.read
       ELSE UNCHANGED <<out, readIndex, played>>
    /\ UNCHANGED <<buffer, writeIndex, posted, overflowed>>

AudioNext ==
    \/ \E n \in 1..MaxSamples : OnSamples(n) /\ UNCHANGED audioOthers
    \/ \E stereo \in BOOLEAN : Process(stereo) /\ UNCHANGED audioOthers

AudioSpec == Init /\ [][AudioNext]_audioVars

\* ----------------------------------------------------------- file watchers
\* ipcMain.handle('fs:watchFile'); thrown is whether fs.watch(filePath) threw
WatchFile(watchId, thrown) ==
    /\ watchCalls < MaxWatchCalls
    /\ watchCalls' = watchCalls + 1
    /\ LET closed == IF watchId \in DOMAIN fileWatchers
                     THEN CloseWatcher(watchers, fileWatchers[watchId])
                     ELSE watchers
       IN IF thrown
          THEN /\ watchers' = closed
               /\ UNCHANGED fileWatchers
               /\ watchRet' = "error"
          ELSE /\ watchers' = Append(closed, [watchId |-> watchId, open |-> TRUE])
               /\ fileWatchers' = MapSet(fileWatchers, watchId, Len(watchers) + 1)
               /\ watchRet' = "success"

\* ipcMain.handle('fs:unwatchFile')
UnwatchFile(watchId) ==
    /\ IF watchId \in DOMAIN fileWatchers
       THEN /\ watchers' = CloseWatcher(watchers, fileWatchers[watchId])
            /\ fileWatchers' = MapDelete(fileWatchers, watchId)
       ELSE UNCHANGED <<fileWatchers, watchers>>
    /\ watchRet' = "success"
    /\ UNCHANGED watchCalls

WatchNext ==
    \/ \E watchId \in WatchIds, thrown \in BOOLEAN :
          WatchFile(watchId, thrown) /\ UNCHANGED watchOthers
    \/ \E watchId \in WatchIds : UnwatchFile(watchId) /\ UNCHANGED watchOthers

WatchSpec == Init /\ [][WatchNext]_watchVars

\* ---------------------------------------------------------- navigation ribbon
\* buildNavHTML(currentPageId) with `stored` in localStorage
BuildNavHTML(stored) ==
    /\ savedOrder' = stored
    /\ navButtons' = Pages(stored)

NavNext == \E stored \in StoredOrders : BuildNavHTML(stored) /\ UNCHANGED navOthers

NavSpec == Init /\ [][NavNext]_navVars

\* ------------------------------------------------------------- the calls
\* One call of a handler with the given id, whichever branch it takes.
CreateCall(terminalId) ==
    \/ CreateUnavailable(terminalId)
    \/ CreateSpawnThrows(terminalId)
    \/ CreateSpawned(terminalId)
WriteCall(id) == \E data \in Keys : WriteFound(id, data) \/ NotFound(id)
ResizeCall(id) ==
    \E d \in Dims : ResizeFound(id, d[1], d[2]) \/ NotFound(id)
KillCall(id) == KillFound(id) \/ NotFound(id)

\* The n of an id "term-<n>".
IsTermId(id) == \E n \in 0..spawns : TermId(n) = id
IdNum(id) == CHOOSE n \in 0..spawns : TermId(n) = id

\* The chunks the window was sent under the id of process p since p was spawned.
Delivered(p) ==
    LET all == MapGet(sent.data, procs[p].id, <<>>)
    IN  SubSeq(all, procs[p].base + 1, Len(all))

\* ------------------------------------------------------------------ claims
\* C1: the ids returned by creates without an id since the last killAll or
\* terminal-window close all have the form "term-<n>", and a later one has a
\* strictly greater n than an earlier one.
C1_AutoIdsIncrease ==
    \A i, j \in 1..Len(autoIds) :
        /\ IsTermId(autoIds[i])
        /\ i < j => IdNum(autoIds[i]) < IdNum(autoIds[j])

C1_Witness ==
    /\ Len(autoIds) >= 2
    /\ \E p \in Pids : procs[p].state = "exited"

\* C2: terminal:killAll leaves the registry empty, has asked every registered
\* process to terminate, and resets the counter to 0; a create without an id
\* that finds the counter at 0 returns "term-0".
C2_KillAllResets ==
    [][/\ KillAll =>
            /\ ptyProcesses' = EmptyMap
            /\ nextPtyId' = 0
            /\ ret'.res = "success"
            /\ \A p \in Registered : procs'[p].kills = procs[p].kills + 1
       /\ \A t \in {Undefined, ""} :
            (nextPtyId = 0 /\ CreateSpawned(t)) => ret'.id = "term-0"]_vars

C2_Witness ==
    /\ ret = Returned("id", "term-0")
    /\ \E p \in Pids : procs[p].kills > 0 /\ procs[p].id = "term-0"
    /\ Len(procs) = 2

C4_OneLiveProcessPerId ==
    \A p, q \in Pids :
        (p # q /\ procs[p].state = "running" /\ procs[q].state = "running")
            => procs[p].id # procs[q].id

\* C5: write, resize and kill with an id that is not registered return an error
\* value and change neither the registry, nor the counter, nor any process,
\* nor what the window was sent.
C5_UnknownIdNoEffect ==
    [][\A id \in CallIds :
          (id \notin DOMAIN ptyProcesses
             /\ (WriteCall(id) \/ ResizeCall(id) \/ KillCall(id))) =>
              /\ ret' = Returned("notfound", id)
              /\ UNCHANGED <<ptyProcesses, nextPtyId, procs, sent>>]_vars

C5_Witness ==
    /\ ret = Returned("notfound", "term-1")
    /\ pty
    /\ \E p \in Pids : procs[p].state = "running" /\ procs[p].id \notin DOMAIN ptyProcesses
    /\ ptyProcesses # EmptyMap

\* The process last spawned under id was asked to terminate and has exited.
KilledAndGone(id) ==
    \E p \in Pids :
        /\ procs[p].id = id
        /\ procs[p].kills > 0
        /\ procs[p].state = "exited"
        /\ \A q \in Pids : q > p => procs[q].id # id

\* C6: once the process last spawned under an id was asked to terminate and its
\* exit callback has run, a write to that id returns an error and reaches no
\* process; and a process that was asked to terminate does exit.
C6_WriteAfterKill ==
    /\ [][\A id \in CallIds :
             (KilledAndGone(id) /\ WriteCall(id)) =>
                 (ret' = Returned("notfound", id) /\ procs' = procs)]_vars
    /\ \A p \in 1..MaxSpawns :
          (p \in Pids /\ procs[p].kills > 0)
              ~> (p \in Pids /\ procs[p].state = "exited")

C6_Witness ==
    /\ KilledAndGone("term-0")
    /\ ret = Returned("notfound", "term-0")
    /\ spawns = 1

\* C7: without node-pty every terminal:create returns an error, spawns nothing
\* and leaves the registry and the counter as they were.
C7_CreateWithoutPty ==
    [][\A t \in CreateArgs :
          (~pty /\ CreateCall(t)) =>
              /\ ret' = Returned("unavailable", Undefined)
              /\ UNCHANGED <<ptyProcesses, nextPtyId, procs, spawns>>]_vars

C7_Witness == ~pty /\ ret = Returned("unavailable", Undefined)

\* The results that are { error: ... } values.
ErrorResults == {"unavailable", "notfound"}

\* C8: when pty.spawn fails, terminal:create gives its caller an error result,
\* not an exception, and registers nothing.
C8_SpawnFailureIsResult ==
    [][\A t \in CreateArgs :
          CreateSpawnThrows(t) =>
              /\ ret'.res \in ErrorResults
              /\ UNCHANGED <<ptyProcesses, procs>>]_vars

\* C9: the chunks the window was sent under a session's id since the session
\* was created are exactly the chunks its process emitted while the window was
\* alive, in order.
C9_DeliveredIsEmitted ==
    \A p \in Pids : procs[p].state = "running" => Delivered(p) = procs[p].emitted

\* C10: the exit callback of a process, run while the terminal window is alive,
\* sends one terminal:exit message with the id of the process and no other, and
\* leaves the id out of the registry; nothing else sends a terminal:exit.
C10_OneExitNotice ==
    [][/\ \A p \in Pids :
            (OnExit(p) /\ WindowAlive) =>
                /\ sent'.exit = MapSet(sent.exit, procs[p].id,
                                       MapGet(sent.exit, procs[p].id, 0) + 1)
                /\ sent'.data = sent.data
                /\ procs[p].id \notin DOMAIN ptyProcesses'
       /\ \A id \in DOMAIN sent'.exit :
            sent'.exit[id] > MapGet(sent.exit, id, 0) =>
                \E p \in Pids : procs[p].id = id /\ OnExit(p) /\ WindowAlive]_vars

C10_Witness ==
    \E p \in Pids :
        /\ procs[p].state = "exited"
        /\ procs[p].kills = 1
        /\ MapGet(sent.exit, procs[p].id, 0) = 1

\* C11: the 'closed' event of the terminal window asks every registered process
\* to terminate, empties the registry and resets the counter to 0; closing the
\* main window while the terminal window is alive calls its close(), and from
\* then on only its 'closed' event changes the window, which does happen.
C11_WindowCloseKillsAll ==
    /\ [][/\ TerminalWindowClosed =>
               /\ \A p \in Registered : procs'[p].kills = procs[p].kills + 1
               /\ \A p \in Pids \ Registered : procs'[p].kills = procs[p].kills
               /\ ptyProcesses' = EmptyMap
               /\ nextPtyId' = 0
          /\ (MainWindowClosed /\ WindowAlive) => terminalWindow' = "closing"
          /\ (terminalWindow = "closing" /\ terminalWindow' # "closing") =>
               TerminalWindowClosed]_vars
    /\ (terminalWindow = "closing")
          ~> (terminalWindow = "null" /\ ptyProcesses = EmptyMap /\ nextPtyId = 0)

C11_Witness ==
    /\ mainWindow = "null"
    /\ terminalWindow = "null"
    /\ \E p \in Pids : procs[p].state = "running" /\ procs[p].kills = 1
    /\ Len(procs) = 2
    /\ ptyProcesses = EmptyMap

\* C12: the id a create without an id returns is not the id of a registered
\* session, nor of a process that is still running, at the time of the call.
C12_AutoIdIsFresh ==
    [][\A t \in {Undefined, ""} :
          CreateSpawned(t) =>
              /\ ret'.id \notin DOMAIN ptyProcesses
              /\ \A p \in Pids : procs[p].state = "running" => procs[p].id # ret'.id]_vars

\* The dimensions of every process.
Sizes(ps) == [p \in DOMAIN ps |-> <<ps[p].cols, ps[p].rows>>]

\* C13: a resize of a registered session returns success, leaves the session
\* with exactly the dimensions given and every other session, the registry and
\* the counter as they were, so that a second resize with the same dimensions,
\* or a resize with the current ones, changes none of them.
C13_ResizeIdempotent ==
    [][\A id \in CallIds, d \in Dims :
          (id \in DOMAIN ptyProcesses /\ ResizeFound(id, d[1], d[2])) =>
              /\ ret' = Returned("success", Undefined)
              /\ Sizes(procs') = [Sizes(procs) EXCEPT ![ptyProcesses[id]] = d]
              /\ Sizes(procs)[ptyProcesses[id]] = d => Sizes(procs') = Sizes(procs)
              /\ UNCHANGED <<ptyProcesses, nextPtyId>>]_vars

C13_Witness ==
    \E p \in Registered :
        /\ procs[p].received = <<<<"resize", 120, 40>>, <<"resize", 120, 40>>>>
        /\ Sizes(procs)[p] = <<120, 40>>
        /\ ret = Returned("success", Undefined)

\* The panes that have focus.
FocusedPanes(ps) == {i \in DOMAIN ps : ps[i].focus}

\* C14: the panes are always those of the selected layout, indices 0 to its
\* count less one (1, 2 or 4 of them), and exactly one of them has focus; a
\* layout selection makes the selected layout the current one.
C14_PaneCountAndFocus ==
    /\ [](/\ DOMAIN panes = 0..(PaneCount(layout) - 1)
          /\ Cardinality(DOMAIN panes) \in {1, 2, 4}
          /\ Cardinality(FocusedPanes(panes)) = 1)
    /\ [][\A l \in Layouts : SelectLayout(l) =>
              /\ layout' = l
              /\ Cardinality(DOMAIN panes') = PaneCount(l)]_allVars

\* Single after Four: the sessions of the three removed panes are remembered.
C14_Witness ==
    /\ layout = "Single"
    /\ \A i \in 1..3 : hidden[i] # Unbound
    /\ panes[0].session # Unbound

\* C15: an output event for an unfocused pane that is not flashing starts its
\* flash, with the whole duration to go; one for a flashing pane leaves what is
\* left of the flash as it is; one for the focused pane starts none. A flash
\* loses one tick per tick of the clock and ends when none is left, or at once
\* when its pane gains focus, and in no other way while the pane exists; the
\* focused pane is never flashing.
C15_FlashDebounced ==
    /\ [](\A i \in DOMAIN panes : panes[i].focus => panes[i].flash = 0)
    /\ [][/\ \A i \in DOMAIN panes, data \in PaneChunks :
                PaneOutput(i, data) =>
                    panes'[i].flash =
                        IF panes[i].focus THEN 0
                        ELSE IF panes[i].flash > 0 THEN panes[i].flash
                        ELSE FlashTicks
          /\ Tick => \A i \in DOMAIN panes :
                panes[i].flash > 0 => panes'[i].flash = panes[i].flash - 1
          /\ \A i \in DOMAIN panes \cap DOMAIN panes' :
                /\ (panes'[i].focus /\ ~panes[i].focus) => panes'[i].flash = 0
                /\ (panes[i].flash > 0 /\ panes'[i].flash = 0) =>
                      \/ Tick /\ panes[i].flash = 1
                      \/ panes'[i].focus]_allVars

\* A second output event reached a pane whose flash had one tick left.
C15_Witness ==
    \E i \in DOMAIN panes :
        /\ panes[i].flash = 1
        /\ panes[i].session \in DOMAIN ptyProcesses
        /\ Len(procs[ptyProcesses[panes[i].session]].emitted) = 2

\* C16: a change to a layout with fewer panes sends no kill request, removes
\* nothing from the registry and ends no process: the sessions of the removed
\* panes stay registered and running, bound to no pane.
C16_ShrinkKillsNothing ==
    [][\A l \in Layouts :
          (SelectLayout(l) /\ PaneCount(l) < PaneCount(layout)) =>
              /\ ptyProcesses' = ptyProcesses
              /\ procs' = procs
              /\ \A id \in RemovedSessions(PaneCount(l)) :
                    /\ procs'[ptyProcesses'[id]].state = "running"
                    /\ procs'[ptyProcesses'[id]].kills = 0
                    /\ \A i \in DOMAIN panes' : panes'[i].session # id]_allVars

\* TwoVertical after Four: the sessions of panes 2 and 3 run on, hidden.
C16_Witness ==
    /\ layout = "TwoVertical"
    /\ \A i \in {2, 3} :
          /\ hidden[i] \in DOMAIN ptyProcesses
          /\ procs[ptyProcesses[hidden[i]]].state = "running"
          /\ procs[ptyProcesses[hidden[i]]].kills = 0

C18_DataSentIffWindow ==
    [][/\ \A p \in Pids, data \in Chunks :
            OnData(p, data) =>
                /\ WindowAlive =>
                      /\ DOMAIN sent'.data = DOMAIN sent.data \cup {procs[p].id}
                      /\ \A id \in DOMAIN sent'.data :
                            sent'.data[id] =
                                IF id = procs[p].id
                                THEN MapGet(sent.data, id, <<>>) \o <<data>>
                                ELSE sent.data[id]
                /\ ~WindowAlive => sent' = sent
                /\ sent'.exit = sent.exit
                /\ UNCHANGED <<ptyProcesses, nextPtyId, ret>>
       /\ \A id \in DOMAIN sent'.data :
            sent'.data[id] # MapGet(sent.data, id, <<>>) =>
                \E p \in Pids, data \in Chunks :
                    procs[p].id = id /\ OnData(p, data) /\ WindowAlive]_vars

\* The only process ever spawned is registered, so no terminal window closed
\* since it was created, and none is open: the chunk it emitted was dropped.
C18_Witness ==
    /\ terminalWindow = "null"
    /\ spawns = 1
    /\ ios = 1
    /\ sent = NothingSent
    /\ \E p \in Registered : procs[p].state = "running" /\ procs[p].received = <<>>

\* C19: a write to a registered id hands the process registered under it the
\* data given, once, after what it had received; every other process, the
\* registry, the counter and what the window was sent are as before, and the
\* call returns success.
C19_WriteReachesOneProcess ==
    [][\A id \in CallIds, data \in Keys :
          (id \in DOMAIN ptyProcesses /\ WriteFound(id, data)) =>
              /\ procs'[ptyProcesses[id]] =
                    [procs[ptyProcesses[id]] EXCEPT
                        !.received = procs[ptyProcesses[id]].received \o <<<<"write", data>>>>]
              /\ \A q \in Pids \ {ptyProcesses[id]} : procs'[q] = procs[q]
              /\ Len(procs') = Len(procs)
              /\ sent' = sent
              /\ ret' = Returned("success", Undefined)
              /\ UNCHANGED <<ptyProcesses, nextPtyId>>]_vars

\* Two writes reached the registered process, in order, and the open terminal
\* window was sent nothing.
C19_Witness ==
    /\ terminalWindow = "open"
    /\ \E p \in Registered :
          /\ procs[p].received = <<<<"write", "k">>, <<"write", "l">>>>
          /\ sent = NothingSent
    /\ ret = Returned("success", Undefined)

\* C20 as stated: a create given any id by its caller, the empty string
\* included, registers the session under that id, returns it and leaves the
\* counter as it was.
C20_AnyGivenIdIsUsed ==
    [][\A t \in CreateArgs \ {Undefined} :
          CreateSpawned(t) =>
              /\ t \in DOMAIN ptyProcesses'
              /\ ret' = Returned("id", t)
              /\ nextPtyId' = nextPtyId]_vars

\* C20 amended: a create with a non-empty id of the caller's (a truthy terminalId) registers the
\* registers the new process under that id, returns it and leaves the counter
\* as it was; the counter grows only in a create without such an id (none, or
\* the empty string), and then by one.
C20_CallerIdKeepsCounter ==
    [][/\ \A t \in CreateArgs :
            (Truthy(t) /\ CreateSpawned(t)) =>
                /\ t \in DOMAIN ptyProcesses'
                /\ ptyProcesses'[t] = Len(procs')
                /\ procs'[Len(procs')].id = t
                /\ DOMAIN ptyProcesses' = DOMAIN ptyProcesses \cup {t}
                /\ ret' = Returned("id", t)
                /\ nextPtyId' = nextPtyId
       /\ \A t \in CreateArgs :
            (~Truthy(t) /\ (CreateSpawned(t) \/ CreateSpawnThrows(t))) =>
                nextPtyId' = nextPtyId + 1
       /\ nextPtyId' > nextPtyId =>
            /\ nextPtyId' = nextPtyId + 1
            /\ \E t \in CreateArgs : ~Truthy(t) /\ CreateCall(t)]_vars

\* A session created with the caller's id "term-0" after one the counter named
\* "term-0": the counter stayed at 1.
C20_Witness ==
    /\ ret = Returned("id", "term-0")
    /\ nextPtyId = 1
    /\ Len(procs) = 2
    /\ autoIds = <<"term-0">>
    /\ ptyProcesses = MapSet(EmptyMap, "term-0", 2)

\* C21: the counter gets smaller only in terminal:killAll and in the 'closed'
\* event of the terminal window; kill, write, resize, the data callback and the
\* exit callback leave it as it is, also when they empty the registry.
C21_CounterOnlyResetByKillAll ==
    [][/\ nextPtyId' < nextPtyId => (KillAll \/ TerminalWindowClosed)
       /\ (\/ \E id \in CallIds : KillCall(id) \/ WriteCall(id) \/ ResizeCall(id)
           \/ \E p \in Pids : OnExit(p) \/ \E data \in Chunks : OnData(p, data))
              => nextPtyId' = nextPtyId]_vars

\* Two sessions got their ids from the counter and were killed one by one: the
\* registry is empty and the counter still at 2.
C21_Witness ==
    /\ nextPtyId = 2
    /\ autoIds = <<"term-0", "term-1">>
    /\ ptyProcesses = EmptyMap
    /\ \A p \in Pids : procs[p].kills = 1

\* C22: the exit callback of a process removes from the registry no entry that
\* holds another process: a newer session created under the same id stays
\* registered.
C22_ExitRemovesOwnEntryOnly ==
    [][\A p \in Pids :
          OnExit(p) =>
              \A id \in DOMAIN ptyProcesses :
                  ptyProcesses[id] # p =>
                      (id \in DOMAIN ptyProcesses' /\ ptyProcesses'[id] = ptyProcesses[id])]_vars

\* The calls made so far.
Calls == 1..Len(promises)

\* C23: resolve or reject is called at most once on the promise of a call; a
\* call is in pendingCalls exactly until then; the first response with its id
\* resolves it, or rejects it when the response carries an error, and its
\* timeout rejects it; a response or a timeout for a call that is not pending
\* changes neither pendingCalls nor any promise.
C23_SettledAtMostOnce ==
    /\ [](\A id \in Calls :
            /\ promises[id].settles <= 1
            /\ (id \in pendingCalls) = (promises[id].settles = 0)
            /\ (promises[id].state = "pending") = (promises[id].settles = 0))
    /\ [][/\ \A id \in ResponseIds, error \in ResponseErrors :
                OnResponse(id, error) =>
                    IF id \in pendingCalls
                    THEN /\ pendingCalls' = pendingCalls \ {id}
                         /\ promises'[id].state =
                               IF error \in {Undefined, ""} THEN "resolved" ELSE "rejected"
                         /\ \A c \in Calls \ {id} : promises'[c] = promises[c]
                    ELSE UNCHANGED <<pendingCalls, promises, timers>>
          /\ \A id \in ResponseIds :
                OnTimeout(id) =>
                    IF id \in pendingCalls
                    THEN /\ pendingCalls' = pendingCalls \ {id}
                         /\ promises'[id].state = "timeout"
                         /\ \A c \in Calls \ {id} : promises'[c] = promises[c]
                    ELSE UNCHANGED <<pendingCalls, promises>>]_bridgeVars

\* A call was resolved by a response; a second response came and its timeout
\* ran afterwards.
C23_Witness ==
    /\ Len(promises) = 1
    /\ promises[1] = [state |-> "resolved", settles |-> 1]
    /\ responses = 2
    /\ timers = {}

\* C24: every pending call has its timeout still to run, and so every call is
\* settled and out of pendingCalls in the end, whether or not a response comes;
\* a response whose id no pending call has changes nothing but the count of
\* responses.
C24_EveryCallSettles ==
    /\ [](pendingCalls \subseteq timers)
    /\ [][\A id \in ResponseIds, error \in ResponseErrors :
              (id \notin pendingCalls /\ OnResponse(id, error)) =>
                  UNCHANGED <<pendingCalls, promises, timers>>]_bridgeVars
    /\ \A id \in 1..MaxCalls :
          (id \in pendingCalls)
              ~> (id \in Calls /\ id \notin pendingCalls
                    /\ promises[id].state # "pending")

\* The parent never answered, and both calls were rejected by their timeouts.
C24_Witness ==
    /\ responses = 0
    /\ Len(promises) = 2
    /\ pendingCalls = {}
    /\ \A id \in Calls : promises[id].state = "timeout"

\* C25: a forced shouldRespond answers yes, 'forced', in every state; an
\* unforced one answers no, 'cooldown', whenever the channel has a recorded
\* response less than cooldownMs ago, whatever the random draw; shouldRespond
\* leaves lastResponseTime as it is; recordResponse writes the entry of its own
\* channel only and changes no answer for another channel.
C25_CooldownPerChannel ==
    /\ [](\A ch \in Channels, draw \in BOOLEAN :
            ShouldRespond(ch, TRUE, draw) = Answer(TRUE, "forced"))
    /\ [][/\ \A ch \in Channels, forced \in BOOLEAN, draw \in BOOLEAN :
                ShouldRespondCall(ch, forced, draw) =>
                    /\ lastResponseTime' = lastResponseTime
                    /\ forced => answer'.res = Answer(TRUE, "forced")
                    /\ ( /\ ~forced
                         /\ ch \in DOMAIN lastResponseTime
                         /\ cooldownMs # NaN
                         /\ now - lastResponseTime[ch] < cooldownMs )
                         => answer'.res = Answer(FALSE, "cooldown")
          /\ \A ch \in Channels :
                RecordResponse(ch) =>
                    /\ lastResponseTime'[ch] = now
                    /\ \A other \in Channels \ {ch}, draw \in BOOLEAN :
                          /\ (other \in DOMAIN lastResponseTime')
                                = (other \in DOMAIN lastResponseTime)
                          /\ other \in DOMAIN lastResponseTime =>
                                lastResponseTime'[other] = lastResponseTime[other]
                          /\ ShouldRespond(other, FALSE, draw)'
                                = ShouldRespond(other, FALSE, draw)]_memeVars

\* An unforced call whose random draw was a hit was refused for the cooldown of
\* its channel, while the other channel has no response recorded.
C25_Witness ==
    /\ answer.res = Answer(FALSE, "cooldown")
    /\ ~answer.forced
    /\ ~answer.draw
    /\ DOMAIN lastResponseTime = {answer.channel}

\* C26: two memes the passive message handler posts in one channel are at least
\* cooldownMs apart, however the handlers of the channel's messages interleave.
C26_OneMemePerWindow ==
    \A i \in DOMAIN posts, j \in DOMAIN posts :
        ( /\ i < j
          /\ posts[i].kind = "message"
          /\ posts[j].kind = "message"
          /\ posts[i].channel = posts[j].channel
          /\ cooldownMs # NaN )
        => posts[j].time - posts[i].time >= cooldownMs

\* The samples number a+1 .. b in the order posted.
Samples(a, b) == [k \in 1..(b - a) |-> a + k]
\* The slots of an output in the order process() fills them: left[1], right[1],
\* left[2], right[2], ...
Interleaved(o) ==
    [k \in 1..(2 * FrameLen) |-> IF k % 2 = 1 THEN o.left[(k + 1) \div 2]
                                              ELSE o.right[k \div 2]]
\* The smaller of two numbers.
Min(a, b) == IF a < b THEN a ELSE b

\* C27: both indexes stay within 0 .. Capacity-1; as long as the samples not yet
\* played never reached Capacity, the samples played are the first samples
\* posted, each once and in order, the distance from the read index to the
\* write index is the number of samples not yet played, and process() fills
\* left[1], right[1], left[2], ... with the next unplayed samples in order and
\* then with zeros, all zeros when nothing is unplayed.
C27_RingBufferInOrder ==
    /\ [](readIndex \in 0..(Capacity - 1) /\ writeIndex \in 0..(Capacity - 1))
    /\ [](~overflowed =>
            /\ Len(played) <= posted
            /\ played = Samples(0, Len(played))
            /\ (writeIndex - readIndex) % Capacity = posted - Len(played))
    /\ [][(Process(TRUE) /\ ~overflowed) =>
            LET unread == posted - Len(played)
                taken == Min(unread, 2 * FrameLen)
            IN /\ played' = Samples(0, Len(played) + taken)
               /\ \A k \in 1..(2 * FrameLen) :
                     Interleaved(out')[k] = IF k <= taken THEN Len(played) + k ELSE 0
               /\ (unread = 0) => (readIndex' = readIndex /\ readIndex' = writeIndex)]_audioVars

\* A process() call took the last unplayed samples, filled the rest of its output
\* with zeros, and the write index had wrapped around the end of the buffer.
C27_Witness ==
    /\ ~overflowed
    /\ posted > Capacity
    /\ Len(played) = posted
    /\ out.left[1] = posted
    /\ out.right[1] = 0
    /\ out.left[2] = 0

\* C28: a posted sample that was not played yet is still in the buffer
\* (the buffer does not look empty while samples are unplayed), and the samples
\* played are the samples posted, each once and in order.
C28_NoSampleLost ==
    /\ Len(played) <= posted
    /\ played = Samples(0, Len(played))
    /\ (Len(played) < posted) => readIndex # writeIndex

\* C29: a watchId has at most one open watcher, and every entry of
\* fileWatchers holds an open watcher, after any sequence of fs:watchFile calls
\* (fs.watch succeeding or throwing) and fs:unwatchFile calls.
C29_EntriesAreOpenWatchers ==
    /\ \A watchId \in WatchIds :
          Cardinality({k \in DOMAIN watchers :
                          watchers[k].watchId = watchId /\ watchers[k].open}) <= 1
    /\ \A watchId \in DOMAIN fileWatchers : watchers[fileWatchers[watchId]].open

\* The place of the first button of a page in the ribbon.
Place(id) == CHOOSE k \in DOMAIN navButtons :
                /\ navButtons[k] = id
                /\ \A j \in 1..(k - 1) : navButtons[j] # id
\* The place of the first mention of a page in the stored order.
Mention(id) == CHOOSE k \in DOMAIN savedOrder.order :
                  /\ savedOrder.order[k] = id
                  /\ \A j \in 1..(k - 1) : savedOrder.order[j] # id
\* The draggable pages in their default order, and those the stored order names.
Draggable == {DraggablePages[k].id : k \in DOMAIN DraggablePages}
Named == {id \in Draggable : Includes(savedOrder.order, id)}
DefaultPlace(id) == CHOOSE k \in DOMAIN NAV_PAGES : NAV_PAGES[k].id = id

\* C30: whatever order is stored, the ribbon starts with the home button and
\* then has every draggable page exactly once: the pages the stored order
\* names in that order, then the others in their default order; a stored order
\* that cannot be parsed gives the default order.
C30_EveryPageOnce ==
    navButtons # <<>> =>
        /\ navButtons[1] = "home"
        /\ Len(navButtons) = Len(NAV_PAGES)
        /\ \A id \in Draggable :
              Cardinality({k \in 2..Len(navButtons) : navButtons[k] = id}) = 1
        /\ \A a \in Named, b \in Named :
              Mention(a) < Mention(b) => Place(a) < Place(b)
        /\ \A a \in Named, b \in Draggable \ Named : Place(a) < Place(b)
        /\ \A a \in Draggable \ Named, b \in Draggable \ Named :
              DefaultPlace(a) < DefaultPlace(b) => Place(a) < Place(b)
        /\ savedOrder.kind = "unparsable" => navButtons = Ids(NAV_PAGES)

====
